---- MODULE Spec2Model ----
(***************************************************************************)
(* News tracker: the article store (NewsDatabase on SQLite,                *)
(* SupabaseDatabase), the feed scraper (NewsScraper), the scheduler and    *)
(* the ranking of articles against the preferences of a user.              *)
(*                                                                         *)
(* Strings are TLA+ strings; a datetime is a pair <<day, tod>> (day number *)
(* and time of day); the text form of a datetime is a triple               *)
(* <<day, separator, tod>> whose separator is the character code that      *)
(* isoformat() puts between the date and the time.                         *)
(***************************************************************************)
EXTENDS Integers, Sequences, FiniteSets, TLC

\* ------------------------------------------------------------------ bounds
MaxId == 3            \* rows ever inserted into the articles table
MaxPrefs == 2         \* rows ever inserted into the user_preferences table
MaxHistory == 1       \* rows ever inserted into the reading_history table
MaxUsers == 1         \* rows ever inserted into the users table
MaxDay == 4           \* last day the clock reaches
TicksPerDay == 2      \* instants per day
MaxStarts == 2        \* calls of start_scheduler that start the scheduler

\* --------------------------------------------------------- program values
DAYS_OLD == 3         \* scrape_all_feeds: delete_old_articles(days_old=3)
SP == 32              \* ord(" "): separator written by the sqlite3 datetime adapter
TEE == 84             \* ord("T"): separator written by datetime.isoformat()
NumDirs == 6          \* directions of the unit vectors the embedder returns
POOL == 200           \* get_personalized_articles: get_articles_with_embeddings(200)

None == <<>>          \* Python None, SQL NULL (no datetime, no text)

VARIABLES
  articles,           \* rows of the articles table
  next_id,            \* AUTOINCREMENT counter of the articles table
  now,                \* wall clock, <<day, tod>>
  last,               \* the last completed call on the database and what it saw
  feeds,              \* what each configured feed serves: name -> entries
  run,                \* per thread: its execution of scrape_all_feeds
  chain,              \* totals of the runs completed one after another, undisturbed
  worker,             \* per worker: its call of add_article, in flight or returned
  backend,            \* the database class the application runs on
  users,              \* rows of the users table
  prefs,              \* rows of the user_preferences table
  history,            \* rows of the reading_history table
  ids,                \* last id handed out, per table
  sched               \* the NewsScrapingScheduler and its BackgroundScheduler

storeVars == <<articles, next_id>>
scrapeVars == <<feeds, run, chain, sched>>
userVars == <<backend, users, prefs, history, ids>>
vars == <<articles, next_id, now, last, feeds, run, chain, worker,
          backend, users, prefs, history, ids, sched>>

\* ------------------------------------------------------------------ inputs
Titles == {"a", "ab"}
Urls == {"c", "bc"}
Descs == {"d"}
Instants == (0..1) \X (0..(TicksPerDay - 1))
PubInputs == {None} \cup {<<0, 0>>, <<0, 1>>, <<1, 0>>}
ArticleInputs ==
  [title: Titles, url: Urls, description: Descs,
   published_date: PubInputs, source: {"A"}]

\* ------------------------------------------------------------------- time
\* datetime.now() - timedelta(days=days_old)
cutoff_date(t, days_old) == <<t[1] - days_old, t[2]>>

\* datetime.isoformat(): "YYYY-MM-DDTHH:MM:SS"
isoformat(dt) == <<dt[1], TEE, dt[2]>>

\* sqlite3's datetime adapter, applied when a datetime is bound to a
\* statement parameter: dt.isoformat(" ")
adapt_datetime(dt) == IF dt = None THEN None ELSE <<dt[1], SP, dt[2]>>

\* the instant a stored text denotes
fromisoformat(s) == <<s[1], s[3]>>

\* SQLite compares TEXT values character by character
RECURSIVE TextLess(_, _)
TextLess(s, t) ==
  IF s = <<>> \/ t = <<>> THEN s = <<>> /\ t # <<>>
  ELSE IF Head(s) # Head(t) THEN Head(s) < Head(t)
  ELSE TextLess(Tail(s), Tail(t))

\* order of two instants
Before(a, b) == a[1] < b[1] \/ (a[1] = b[1] /\ a[2] < b[2])

\* ------------------------------------------------------------- embeddings
\* the sentence-transformer model: a fixed function from text to a unit
\* vector, here the direction (a multiple of 60 degrees) of the vector
model_encode(text) == Len(text) % NumDirs

\* " ".join(filter(None, [title, description]))
JoinParts(title, description) ==
  IF title = "" THEN description
  ELSE IF description = "" THEN title
  ELSE title \o " " \o description

create_article_embedding(title, description) ==
  model_encode(JoinParts(title, description))

serialize_embedding(v) == <<"pickle", v>>
deserialize_embedding(b) == b[2]

\* stored values that are no vector of the model: bytes that pickle.loads
\* rejects, and a vector of another dimension
CORRUPT == -1
OTHER_DIM == NumDirs

\* pickle.loads(embedding_bytes) raises
LoadFails(b) == b[2] = CORRUPT

\* cosine_similarity raises ValueError for vectors of different dimensions
DimMismatch(e1, e2) == (e1[2] = OTHER_DIM) # (e2[2] = OTHER_DIM)

\* ------------------------------------------------------------ fingerprint
\* f"{article.title}{article.url}{article.description}"
content_for_hash(a) == a.title \o a.url \o a.description

\* hashlib.md5(...).hexdigest(): distinct inputs give distinct digests
md5(s) == <<"md5", s>>

Triple(a) == <<a.title, a.url, a.description>>

\* ------------------------------------------------------------------ store
\* UNIQUE(url), UNIQUE(content_hash) of the articles table
IntegrityError(store, url, hash) ==
  \E r \in store : r.url = url \/ r.content_hash = hash

NewRow(id, a, hash, emb) ==
  [id |-> id, title |-> a.title, url |-> a.url,
   description |-> a.description,
   published_date |-> adapt_datetime(a.published_date),
   source |-> a.source, content_hash |-> hash, embedding |-> emb]

\* an insert that overwrites the stored row of the same URL (upsert)
add_article_Upsert(store, nid, a, embed_ok) ==
  LET hash == md5(content_for_hash(a))
      emb == serialize_embedding(create_article_embedding(a.title, a.description))
      old == {r \in store : r.url = a.url}
  IN IF ~embed_ok
       THEN [outcome |-> "raised", articles |-> store, next_id |-> nid]
     ELSE IF old # {}
       THEN [outcome |-> "False",
             articles |-> (store \ old) \cup
                          {NewRow(r.id, a, hash, emb) : r \in old},
             next_id |-> nid]
     ELSE IF IntegrityError(store, a.url, hash)
       THEN [outcome |-> "False", articles |-> store, next_id |-> nid]
     ELSE [outcome |-> "True",
           articles |-> store \cup {NewRow(nid, a, hash, emb)},
           next_id |-> nid + 1]

\* NewsDatabase.add_article on store `store`; embed_ok is whether the
\* embedding model returns (TRUE) or raises (FALSE)
add_article(store, nid, a, embed_ok) ==
  LET hash == md5(content_for_hash(a))
      emb == serialize_embedding(create_article_embedding(a.title, a.description))
  IN IF ~embed_ok
       THEN [outcome |-> "raised", articles |-> store, next_id |-> nid]
     ELSE IF IntegrityError(store, a.url, hash)
       THEN [outcome |-> "False", articles |-> store, next_id |-> nid]
     ELSE [outcome |-> "True",
           articles |-> store \cup {NewRow(nid, a, hash, emb)},
           next_id |-> nid + 1]

\* WHERE published_date < ? OR published_date IS NULL
PurgeWhere(r, cutoff_text) ==
  r.published_date = None \/ TextLess(r.published_date, cutoff_text)

\* NewsDatabase.delete_old_articles
delete_old_articles(store, t, days_old) ==
  LET cutoff_text == isoformat(cutoff_date(t, days_old))
      doomed == {r \in store : PurgeWhere(r, cutoff_text)}
  IN [count |-> Cardinality(doomed), articles |-> store \ doomed]

\* ---------------------------------------------------------------- scraper
\* NewsScraper.rss_feeds, in insertion order
rss_feeds == <<"A", "B">>
Sources == {rss_feeds[i] : i \in 1..Len(rss_feeds)}

\* threads that call scrape_all_feeds: the scheduler's job thread
\* (scrape_job) and a request thread (trigger_scrape)
Threads == {"job", "req"}

\* the dataclass with a default for content
NewsArticleRequired_ContentDefault ==
  {"title", "url", "description", "published_date", "source"}

\* fields of the NewsArticle dataclass that have no default
NewsArticleRequired ==
  {"title", "url", "description", "content", "published_date", "source"}

\* keyword arguments _parse_entry passes to NewsArticle(...)
ParseEntryKwargs ==
  {"title", "url", "description", "published_date", "source", "category"}

NoArticle == [ok |-> FALSE]

\* NewsScraper._parse_entry: NoArticle stands for the None it returns for
\* an entry without title or link and when building the article raises
_parse_entry(entry, source, t) ==
  IF entry.title = "" THEN NoArticle
  ELSE IF entry.link = "" THEN NoArticle
  ELSE IF ~(NewsArticleRequired \subseteq ParseEntryKwargs) THEN NoArticle
  ELSE [ok |-> TRUE,
        article |-> [title |-> entry.title, url |-> entry.link,
                     description |-> entry.summary,
                     published_date |->
                       IF entry.published # None THEN entry.published ELSE t,
                     source |-> source]]

\* the loop of NewsScraper.scrape_feed over entries[i..]; fail_at is the
\* position of the entry whose embedding raises (0: none does)
RECURSIVE ScrapeEntries(_, _, _, _, _, _, _, _)
ScrapeEntries(entries, i, source, t, store, nid, count, fail_at) ==
  IF i > Len(entries)
    THEN [outcome |-> "returned", count |-> count,
          articles |-> store, next_id |-> nid]
  ELSE LET parsed == _parse_entry(entries[i], source, t)
       IN IF ~parsed.ok
            THEN ScrapeEntries(entries, i + 1, source, t, store, nid, count, fail_at)
          ELSE LET res == add_article(store, nid, parsed.article, i # fail_at)
               IN IF res.outcome = "raised"
                    THEN [outcome |-> "raised", count |-> count,
                          articles |-> res.articles, next_id |-> res.next_id]
                  ELSE ScrapeEntries(entries, i + 1, source, t, res.articles,
                                     res.next_id,
                                     IF res.outcome = "True" THEN count + 1 ELSE count,
                                     fail_at)

\* a scrape_feed that returns len(feed.entries)
scrape_feed_CountEntries(entries, source, t, store, nid, fetch_ok, fail_at) ==
  IF ~fetch_ok
    THEN [outcome |-> "raised", count |-> 0, articles |-> store, next_id |-> nid]
  ELSE [ScrapeEntries(entries, 1, source, t, store, nid, 0, fail_at)
          EXCEPT !.count = Len(entries)]

\* NewsScraper.scrape_feed; fetch_ok is whether feedparser.parse returns
scrape_feed(entries, source, t, store, nid, fetch_ok, fail_at) ==
  IF ~fetch_ok
    THEN [outcome |-> "raised", count |-> 0, articles |-> store, next_id |-> nid]
  ELSE ScrapeEntries(entries, 1, source, t, store, nid, 0, fail_at)

\* the loop without its except clause: the exception ends the run
feed_done_Propagate(r, name, res) ==
  IF res.outcome = "raised"
    THEN [r EXCEPT !.pc = "done", !.outcome = "raised", !.failed = @ \cup {name}]
  ELSE [r EXCEPT !.results = [s \in DOMAIN r.results \cup {name} |->
                                IF s = name THEN res.count ELSE r.results[s]],
                 !.i = @ + 1]

\* the body of the for loop of scrape_all_feeds for one feed: what the run
\* record becomes once scrape_feed has returned or raised
feed_done(r, name, res) ==
  IF res.outcome = "raised"
    THEN [r EXCEPT !.results = [s \in DOMAIN r.results \cup {name} |->
                                  IF s = name THEN 0 ELSE r.results[s]],
                   !.failed = @ \cup {name},
                   !.i = @ + 1]
  ELSE [r EXCEPT !.results = [s \in DOMAIN r.results \cup {name} |->
                                IF s = name THEN res.count ELSE r.results[s]],
                 !.i = @ + 1]

RECURSIVE SumOver(_, _)
SumOver(f, S) ==
  IF S = {} THEN 0
  ELSE LET s == CHOOSE x \in S : TRUE IN f[s] + SumOver(f, S \ {s})

\* sum(results.values())
total_new(results) == SumOver(results, DOMAIN results)

\* NewsScrapingScheduler.__init__: a BackgroundScheduler that is not started
\* (state), with an empty job store (jobs, in the order of registration);
\* starts counts the calls of BackgroundScheduler.start
NewScheduler ==
  [is_running |-> FALSE, state |-> "stopped", jobs |-> <<>>, starts |-> 0]

IdleRun ==
  [pc |-> "idle", i |-> 0, results |-> <<>>, failed |-> {},
   outcome |-> "none", solo |-> FALSE, pre |-> {}, post |-> {}, purges |-> 0]

Active(t) == run[t].pc \in {"purge", "feeds"}

\* ---------------------------------------------------------------- actions
NoCall == [op |-> "none"]

\* callers of add_article that run at the same time
Workers == {"w1", "w2"}

IdleWorker ==
  [pc |-> "idle", article |-> NoArticle, outcome |-> "none",
   ov |-> FALSE, fresh |-> FALSE]

\* no user and no preference yet, on database class b
NoUsers(b) ==
  /\ backend = b
  /\ users = {}
  /\ prefs = {}
  /\ history = {}
  /\ ids = [users |-> 0, user_preferences |-> 0, reading_history |-> 0]

Init ==
  /\ articles = {}
  /\ next_id = 1
  /\ now = <<DAYS_OLD, 0>>
  /\ last = NoCall
  /\ feeds = [s \in Sources |-> <<>>]
  /\ run = [t \in Threads |-> IdleRun]
  /\ chain = <<>>
  /\ worker = [w \in Workers |-> IdleWorker]
  /\ sched = NewScheduler
  /\ NoUsers("sqlite")

\* a caller adds an article
AddArticle ==
  \E a \in ArticleInputs, embed_ok \in BOOLEAN :
    /\ next_id <= MaxId
    /\ LET res == add_article(articles, next_id, a, embed_ok)
       IN /\ articles' = res.articles
          /\ next_id' = res.next_id
          /\ last' = [op |-> "add_article", article |-> a,
                      embed_ok |-> embed_ok, outcome |-> res.outcome,
                      pre |-> articles]
    /\ UNCHANGED <<now, scrapeVars, worker, userVars>>

\* a caller purges the store
DeleteOldArticles ==
  /\ LET res == delete_old_articles(articles, now, DAYS_OLD)
     IN /\ articles' = res.articles
        /\ last' = [op |-> "delete_old_articles",
                    cutoff |-> cutoff_date(now, DAYS_OLD),
                    outcome |-> res.count, pre |-> articles]
  /\ UNCHANGED <<next_id, now, scrapeVars, worker, userVars>>

\* time passes
Tick ==
  /\ now' = IF now[2] + 1 < TicksPerDay THEN <<now[1], now[2] + 1>>
            ELSE <<now[1] + 1, 0>>
  /\ now'[1] <= MaxDay
  /\ UNCHANGED <<articles, next_id, last, scrapeVars, worker, userVars>>

Next == AddArticle \/ DeleteOldArticles \/ Tick

Spec == Init /\ [][Next]_vars

\* ------------------------------------------------------ ingestion runs
\* feed entries as feedparser yields them
EntryA(title, published) ==
  [title |-> title, link |-> "c", summary |-> "d", published |-> published]
EntryB(title, link) ==
  [title |-> title, link |-> link, summary |-> "d", published |-> <<2, 0>>]

FeedsA ==
  {<<>>} \cup {<<EntryA(ti, p)>> : ti \in {"a", ""}, p \in {None, <<0, 0>>, <<2, 0>>}}
FeedsB == {<<>>, <<EntryB("ab", "bc"), EntryB("a", "bc")>>}

\* stores an earlier add_article has left behind
InitStores ==
  {[articles |-> {}, next_id |-> 1]} \cup
  {[articles |-> add_article({}, 1, a, TRUE).articles, next_id |-> 2] :
     a \in [title: {"a"}, url: {"c"}, description: {"d"},
            published_date: {<<0, 0>>, <<2, 0>>}, source: {"A"}]}

ScrapeInit ==
  /\ \E st \in InitStores : articles = st.articles /\ next_id = st.next_id
  /\ now = <<DAYS_OLD, 0>>
  /\ last = NoCall
  /\ feeds \in [Sources -> FeedsA \cup FeedsB]
  /\ feeds["A"] \in FeedsA /\ feeds["B"] \in FeedsB
  /\ run = [t \in Threads |-> IdleRun]
  /\ chain = <<>>
  /\ worker = [w \in Workers |-> IdleWorker]
  /\ sched = NewScheduler
  /\ NoUsers("sqlite")

\* the last entry of the chain and the one before it
LastTwo(c) == IF Len(c) <= 2 THEN c ELSE SubSeq(c, Len(c) - 1, Len(c))

\* a run that goes to the loop over the feeds without the purge
StartRun_NoPurge(t) ==
  /\ run[t].pc \in {"idle", "done"}
  /\ LET others == {u \in Threads \ {t} : Active(u)}
     IN /\ run' = [u \in Threads |->
                     IF u = t
                       THEN [pc |-> "feeds", i |-> 1, results |-> <<>>,
                             failed |-> {}, outcome |-> "none",
                             solo |-> others = {}, pre |-> articles, post |-> {},
                             purges |-> 0]
                     ELSE IF u \in others THEN [run[u] EXCEPT !.solo = FALSE]
                     ELSE run[u]]
        /\ chain' = IF others = {} THEN chain ELSE <<>>
  /\ UNCHANGED <<articles, next_id, now, last, feeds, sched, worker, userVars>>

\* the runs and the chain once thread t has entered scrape_all_feeds
Entered(t) ==
  LET others == {u \in Threads \ {t} : Active(u)}
  IN [run |-> [u \in Threads |->
                 IF u = t
                   THEN [pc |-> "purge", i |-> 1, results |-> <<>>,
                         failed |-> {}, outcome |-> "none",
                         solo |-> others = {}, pre |-> articles, post |-> {},
                         purges |-> 0]
                 ELSE IF u \in others THEN [run[u] EXCEPT !.solo = FALSE]
                 ELSE run[u]],
      chain |-> IF others = {} THEN chain ELSE <<>>]

\* a thread enters scrape_all_feeds (scrape_job fires, or POST /api/scrape)
StartRun(t) ==
  /\ run[t].pc \in {"idle", "done"}
  /\ run' = Entered(t).run
  /\ chain' = Entered(t).chain
  /\ UNCHANGED <<articles, next_id, now, last, feeds, sched, worker, userVars>>

\* scrape_all_feeds, lines 39-44: the purge, whose failure is only logged;
\* purges counts the attempts of the run
Purge(t) ==
  /\ run[t].pc = "purge"
  /\ \E purge_ok \in BOOLEAN :
       articles' = IF purge_ok
                     THEN delete_old_articles(articles, now, DAYS_OLD).articles
                   ELSE articles
  /\ run' = [run EXCEPT ![t].pc = "feeds", ![t].purges = @ + 1]
  /\ UNCHANGED <<next_id, now, last, feeds, sched, chain, worker, userVars>>

\* scrape_all_feeds, lines 48-56: one iteration of the loop over the feeds
ScrapeFeed(t) ==
  /\ run[t].pc = "feeds"
  /\ run[t].i <= Len(rss_feeds)
  /\ next_id <= MaxId
  /\ LET name == rss_feeds[run[t].i]
     IN \E fetch_ok \in BOOLEAN, fail_at \in 0..Len(feeds[name]) :
          LET res == scrape_feed(feeds[name], name, now, articles, next_id,
                                 fetch_ok, fail_at)
          IN /\ articles' = res.articles
             /\ next_id' = res.next_id
             /\ run' = [run EXCEPT ![t] = feed_done(run[t], name, res)]
  /\ UNCHANGED <<now, last, feeds, sched, chain, worker, userVars>>

\* a return placed inside the loop, after the first feed
Return_Early(t) ==
  /\ run[t].pc = "feeds"
  /\ run[t].i > 1
  /\ run' = [run EXCEPT ![t].pc = "done", ![t].outcome = "returned",
                        ![t].post = articles]
  /\ chain' = IF run[t].solo
                THEN LastTwo(Append(chain, total_new(run[t].results)))
              ELSE <<>>
  /\ UNCHANGED <<articles, next_id, now, last, feeds, sched, worker, userVars>>

\* scrape_all_feeds, line 58: return results
Return(t) ==
  /\ run[t].pc = "feeds"
  /\ run[t].i > Len(rss_feeds)
  /\ run' = [run EXCEPT ![t].pc = "done", ![t].outcome = "returned",
                        ![t].post = articles]
  /\ chain' = IF run[t].solo
                THEN LastTwo(Append(chain, total_new(run[t].results)))
              ELSE <<>>
  /\ UNCHANGED <<articles, next_id, now, last, feeds, sched, worker, userVars>>

ScrapeNext ==
  \/ \E t \in Threads : StartRun(t) \/ Purge(t) \/ ScrapeFeed(t) \/ Return(t)
  \/ Tick

ScrapeSpec == ScrapeInit /\ [][ScrapeNext]_vars

\* where a feed stands in the run r of scrape_all_feeds: not reached by the
\* loop yet, given its count, or given 0 by the except clause
SourceState(r, s) ==
  IF s \in r.failed THEN "failed"
  ELSE IF s \in DOMAIN r.results THEN "done"
  ELSE "pending"

\* a thread inside scrape_all_feeds executes its next statement: the
\* database calls and feedparser.parse return or raise
ScrapeFairSpec ==
  /\ ScrapeSpec
  /\ \A t \in Threads : WF_vars(Purge(t) \/ ScrapeFeed(t) \/ Return(t))

\* ------------------------------------------------- concurrent add_article
ConcInputs ==
  [title: Titles, url: Urls, description: Descs,
   published_date: {<<2, 0>>}, source: Sources]

\* add_article, lines 133-140: worker w computes the fingerprint and the
\* embedding of its article; the call ends here when the embedding raises.
\* ov records that the call runs while the other worker's call is in
\* flight, fresh that no stored row has its URL or fingerprint yet.
AddBegin(w) ==
  /\ worker[w].pc = "idle"
  /\ next_id <= MaxId
  /\ \E a \in ConcInputs, embed_ok \in BOOLEAN :
       LET inflight == {u \in Workers \ {w} : worker[u].pc = "insert"}
           res == add_article(articles, next_id, a, embed_ok)
       IN worker' = [u \in Workers |->
            IF u = w
              THEN [pc |-> IF res.outcome = "raised" THEN "idle" ELSE "insert",
                    article |-> [ok |-> TRUE, article |-> a],
                    outcome |-> IF res.outcome = "raised" THEN "raised" ELSE "none",
                    ov |-> inflight # {},
                    fresh |-> ~IntegrityError(articles, a.url,
                                              md5(content_for_hash(a)))]
            ELSE IF u \in inflight THEN [worker[u] EXCEPT !.ov = TRUE]
            ELSE worker[u]]
  /\ UNCHANGED <<articles, next_id, now, last, scrapeVars, userVars>>

\* add_article, lines 142-167: the INSERT, its commit and the return
AddInsert(w) ==
  /\ worker[w].pc = "insert"
  /\ LET res == add_article(articles, next_id, worker[w].article.article, TRUE)
     IN /\ articles' = res.articles
        /\ next_id' = res.next_id
        /\ worker' = [worker EXCEPT ![w].pc = "idle",
                                    ![w].outcome = res.outcome]
  /\ UNCHANGED <<now, last, scrapeVars, userVars>>

ConcNext == \E w \in Workers : AddBegin(w) \/ AddInsert(w)

ConcSpec == Init /\ [][ConcNext]_vars

\* ------------------------------------------------- users and preferences
Backends == {"sqlite", "supabase"}
Usernames == {"bob", "amy"}   \* who asks for ranked articles
Subscribers == {"bob"}        \* who adds preferences
Weights == {1, 2}
Limits == {1, 2}

\* the description handed to add_user_preference_with_embedding: free text
\* (a str) or a list of keywords (what create_preference_embedding declares)
PrefInputs ==
  [kind: {"str"}, text: {"a d"}, keywords: {<<>>}] \cup
  [kind: {"list"}, text: {""}, keywords: {<<"a", "d">>, <<"abcdef">>}]

\* " ".join(text_parts)
RECURSIVE JoinKeywords(_)
JoinKeywords(ks) ==
  IF ks = <<>> THEN ""
  ELSE IF Len(ks) = 1 THEN ks[1]
  ELSE ks[1] \o " " \o JoinKeywords(Tail(ks))

\* EmbeddingService.create_preference_embedding: keywords.copy() exists for
\* a list and raises AttributeError for a str
create_preference_embedding(d, embed_ok) ==
  IF d.kind = "str" \/ ~embed_ok THEN [ok |-> FALSE]
  ELSE [ok |-> TRUE, embedding |-> model_encode(JoinKeywords(d.keywords))]

\* the value pgvector stores for the list the Supabase client sends
pgvector(v) == <<"vector", v>>

\* direction of a stored embedding, whichever class stored it
EmbDir(e) == e[2]

\* get_user_id / get_user_by_username: the id, 0 when there is no such user
get_user_id(us, username) ==
  IF \E u \in us : u.username = username
    THEN (CHOOSE u \in us : u.username = username).id
  ELSE 0

\* get_or_create_user: the id of the user and the tables after the call
get_or_create_user(us, seq, username) ==
  IF get_user_id(us, username) # 0
    THEN [id |-> get_user_id(us, username), users |-> us, ids |-> seq]
  ELSE [id |-> seq.users + 1,
        users |-> us \cup {[id |-> seq.users + 1, username |-> username]},
        ids |-> [seq EXCEPT !.users = seq.users + 1]]

\* add_user_preference_with_embedding: the user is looked up or created,
\* then the embedding is generated, then the row is inserted. A list of
\* keywords is what NewsDatabase of the repository's top level stores
\* (joined by spaces); its rows are carried over by init_database.
add_user_preference_with_embedding(b, us, ps, seq, username, d, weight, embed_ok) ==
  LET u == get_or_create_user(us, seq, username)
      e == create_preference_embedding(d, embed_ok)
      pid == u.ids.user_preferences + 1
  IN IF ~e.ok
       THEN [outcome |-> "raised", users |-> u.users, prefs |-> ps, ids |-> u.ids]
     ELSE [outcome |-> "returned", users |-> u.users,
           prefs |-> ps \cup
             {[id |-> pid, user_id |-> u.id,
               description |-> JoinKeywords(d.keywords), weight |-> weight,
               embedding |-> IF b = "sqlite"
                               THEN serialize_embedding(e.embedding)
                             ELSE pgvector(e.embedding)]},
           ids |-> [u.ids EXCEPT !.user_preferences = pid]]

\* get_user_preferences: the (description, weight) pairs of the user's
\* rows, as the set of the elements of the returned list
get_user_preferences(us, ps, username) ==
  LET uid == get_user_id(us, username)
  IN IF uid = 0 THEN {}
     ELSE {<<p.description, p.weight>> : p \in {q \in ps : q.user_id = uid}}

\* get_user_preferences_with_ids: the (id, description, weight) triples
get_user_preferences_with_ids(us, ps, username) ==
  LET uid == get_user_id(us, username)
  IN IF uid = 0 THEN {}
     ELSE {<<p.id, p.description, p.weight>> :
             p \in {q \in ps : q.user_id = uid}}

\* SupabaseDatabase.add_article: every exception, the embedding model's
\* and the duplicate key's included, is caught and answered with False
supabase_add_article(store, nid, a, embed_ok) ==
  LET hash == md5(content_for_hash(a))
      emb == pgvector(create_article_embedding(a.title, a.description))
      date == IF a.published_date = None THEN None
              ELSE isoformat(a.published_date)
  IN IF ~embed_ok \/ IntegrityError(store, a.url, hash)
       THEN [outcome |-> "False", articles |-> store, next_id |-> nid]
     ELSE [outcome |-> "True",
           articles |-> store \cup
             {[NewRow(nid, a, hash, emb) EXCEPT !.published_date = date]},
           next_id |-> nid + 1]

\* ---------------------------------------------------------------- ranking
\* A score is a record [n, d2] that stands for the real number n / sqrt(d2).
\* twice the cosine of k * 60 degrees, k = 0..5
Cos2 == <<2, 1, -1, -2, -1, 1>>

\* EmbeddingService.calculate_similarity, in halves
calculate_similarity(e1, e2) == Cos2[((e1 - e2 + NumDirs) % NumDirs) + 1]

\* the score h / 2
Halves(h) == [n |-> h, d2 |-> 4]

\* n * |n|, which orders as n does
SignedSquare(n) == IF n < 0 THEN -(n * n) ELSE n * n

\* order and equality of two scores
ScoreLess(s, t) == SignedSquare(s.n) * t.d2 < SignedSquare(t.n) * s.d2
ScoreEq(s, t) == SignedSquare(s.n) * t.d2 = SignedSquare(t.n) * s.d2

\* the orders in which the rows of S can be listed
Perms(S) ==
  {f \in [1..Cardinality(S) -> S] :
     \A i, j \in 1..Cardinality(S) : i # j => f[i] # f[j]}

\* [:n] and LIMIT n
Take(seq, n) == SubSeq(seq, 1, IF Len(seq) < n THEN Len(seq) ELSE n)

\* ORDER BY published_date: SQLite puts NULL below every value, PostgreSQL
\* above every value
DateBelow(b, x, y) ==
  IF b = "sqlite" THEN (IF x = None THEN y # None ELSE y # None /\ TextLess(x, y))
  ELSE (IF y = None THEN x # None ELSE x # None /\ TextLess(x, y))

\* ORDER BY published_date DESC LIMIT ?: rows of equal date come in any order
OrderByDateDesc(b, S, limit) ==
  {Take(f, limit) : f \in
     {g \in Perms(S) : \A i, j \in DOMAIN g :
        i < j => ~DateBelow(b, g[i].published_date, g[j].published_date)}}

\* the first rows of the table in any order, each paired with the score 0.0
get_latest_articles_Unordered(b, store, limit) ==
  {[i \in DOMAIN f |-> <<f[i].id, Halves(0)>>] :
     f \in {Take(g, limit) : g \in Perms(store)}}

\* get_latest_articles, each article paired with the score 0.0
get_latest_articles(b, store, limit) ==
  {[i \in DOMAIN f |-> <<f[i].id, Halves(0)>>] :
     f \in OrderByDateDesc(b, store, limit)}

\* NewsDatabase.get_articles_with_embeddings
get_articles_with_embeddings(store, limit) ==
  OrderByDateDesc("sqlite", {r \in store : r.embedding # None}, limit)

\* total_score of one article: the sum over the preferences of
\* similarity * weight
total_score(emb, ps) ==
  SumOver([p \in ps |->
             calculate_similarity(EmbDir(emb),
                                  EmbDir(p.embedding)) * p.weight], ps)

\* a descending sort that reverses the order of articles of equal score
sort_reverse_TiesReversed(seq) ==
  LET n == Len(seq)
      f == CHOOSE g \in [1..n -> 1..n] :
             /\ \A i, j \in 1..n : i # j => g[i] # g[j]
             /\ \A i, j \in 1..n : i < j =>
                  \/ ScoreLess(seq[g[j]][2], seq[g[i]][2])
                  \/ (ScoreEq(seq[g[j]][2], seq[g[i]][2]) /\ g[i] > g[j])
  IN [i \in 1..n |-> seq[f[i]]]

\* list.sort(key=score, reverse=True): stable, so that articles of equal
\* score keep the order they had
RECURSIVE sort_reverse(_)
sort_reverse(seq) ==
  IF seq = <<>> THEN <<>>
  ELSE LET rest == sort_reverse(SubSeq(seq, 1, Len(seq) - 1))
           x == seq[Len(seq)]
           before == {i \in 1..Len(rest) : ~ScoreLess(rest[i][2], x[2])}
           k == Cardinality(before)
       IN SubSeq(rest, 1, k) \o <<x>> \o SubSeq(rest, k + 1, Len(rest))

\* the user's preferences that have an embedding
embedded_preferences(ps, uid) ==
  {p \in ps : p.user_id = uid /\ p.embedding # None}

\* the number of candidates get_personalized_articles asks the store for:
\* get_articles_with_embeddings(200) in NewsDatabase, 'match_count': limit
\* in SupabaseDatabase
candidates_asked(b, limit) == IF b = "sqlite" THEN POOL ELSE limit

\* a ranking whose pool is read without WHERE embedding IS NOT NULL and that
\* scores an article without a vector 0.0
get_personalized_articles_ZeroScored(us, ps, store, username, limit) ==
  LET uid == get_user_id(us, username)
      preferences == embedded_preferences(ps, uid)
      scored(pool) ==
        [i \in DOMAIN pool |->
           <<pool[i].id,
             IF pool[i].embedding = None THEN Halves(0)
             ELSE Halves(total_score(pool[i].embedding, preferences))>>]
  IN IF uid = 0 \/ preferences = {}
       THEN {[raised |-> FALSE, list |-> l] :
               l \in get_latest_articles("sqlite", store, limit)}
     ELSE {[raised |-> FALSE,
            list |-> Take(sort_reverse(scored(pool)), limit)] :
             pool \in OrderByDateDesc("sqlite", store,
                                      candidates_asked("sqlite", limit))}

\* NewsDatabase.get_personalized_articles: what the call can do, raise or
\* return a list. The loop skips an article whose embedding is None
get_personalized_articles(us, ps, store, username, limit) ==
  LET uid == get_user_id(us, username)
      preferences == embedded_preferences(ps, uid)
      scored(all) ==
        LET pool == SelectSeq(all, LAMBDA r : r.embedding # None)
        IN [i \in DOMAIN pool |->
              <<pool[i].id,
                Halves(total_score(pool[i].embedding, preferences))>>]
      raises(pool) ==
        \E i \in DOMAIN pool :
          \/ LoadFails(pool[i].embedding)
          \/ \E p \in preferences : DimMismatch(pool[i].embedding, p.embedding)
  IN IF uid = 0 \/ preferences = {}
       THEN {[raised |-> FALSE, list |-> l] :
               l \in get_latest_articles("sqlite", store, limit)}
     ELSE {IF raises(pool) THEN [raised |-> TRUE, list |-> <<>>]
           ELSE [raised |-> FALSE,
                 list |-> Take(sort_reverse(scored(pool)), limit)] :
             pool \in get_articles_with_embeddings(
                       store, candidates_asked("sqlite", limit))}

\* the unit vector of direction k, in coordinates over the unit vectors of
\* directions 0 and 1 (60 degrees apart)
DirVec == <<<<1, 0>>, <<0, 1>>, <<-1, 1>>, <<-1, 0>>, <<0, -1>>, <<1, -1>>>>

\* twice the dot product of two vectors given in those coordinates
Dot2(u, v) == 2 * u[1] * v[1] + 2 * u[2] * v[2] + u[1] * v[2] + u[2] * v[1]

\* avg_pref: each preference vector times its weight, summed coordinate by
\* coordinate and divided by the number of preferences (den)
avg_pref(ps) ==
  [x |-> SumOver([p \in ps |-> DirVec[EmbDir(p.embedding) + 1][1] * p.weight], ps),
   y |-> SumOver([p \in ps |-> DirVec[EmbDir(p.embedding) + 1][2] * p.weight], ps),
   den |-> Cardinality(ps)]

\* cosine of the angle between an article's unit vector and the query
\* vector q: dot(a, q) / (|a| |q|), where the divisor den of q cancels
cosine_to(emb, q) ==
  [n |-> Dot2(DirVec[EmbDir(emb) + 1], <<q.x, q.y>>),
   d2 |-> 2 * Dot2(<<q.x, q.y>>, <<q.x, q.y>>)]

\* similarity against match_threshold = 0.5; the cosine to the zero vector
\* is no number and passes no comparison
AboveThreshold(s, strict) ==
  /\ s.d2 > 0 /\ s.n > 0
  /\ IF strict THEN 4 * s.n * s.n > s.d2 ELSE 4 * s.n * s.n >= s.d2

\* the database function find_similar_articles(query_embedding,
\* match_threshold, match_count): the embedded articles whose cosine
\* similarity to the query passes the threshold, most similar first
find_similar_articles(store, q, strict, match_count) ==
  LET matched == {r \in store : r.embedding # None
                     /\ AboveThreshold(cosine_to(r.embedding, q), strict)}
      ordered == {g \in Perms(matched) : \A i, j \in DOMAIN g :
                    i < j => ~ScoreLess(cosine_to(g[i].embedding, q),
                                        cosine_to(g[j].embedding, q))}
  IN {Take([i \in DOMAIN g |-> <<g[i].id, cosine_to(g[i].embedding, q)>>],
           match_count) : g \in ordered}

\* SupabaseDatabase.get_personalized_articles: the lists the call can
\* return; rpc_ok is whether the remote call answers
supabase_get_personalized_articles(us, ps, store, username, limit, rpc_ok, strict) ==
  LET uid == get_user_id(us, username)
      preferences == embedded_preferences(ps, uid)
  IN {[raised |-> FALSE, list |-> l] : l \in
        IF uid = 0 \/ preferences = {} \/ ~rpc_ok
          THEN get_latest_articles("supabase", store, limit)
        ELSE find_similar_articles(store, avg_pref(preferences), strict,
                                   candidates_asked("supabase", limit))}

\* the stores that calls of add_article leave behind on database class b
RankArticleInputs ==
  [title: Titles, url: Urls, description: Descs,
   published_date: {<<1, 0>>}, source: {"A"}] \cup
  [title: {"ab"}, url: {"bc"}, description: Descs,
   published_date: {None, <<0, 0>>}, source: {"A"}]

RECURSIVE StoreAfter(_, _)
StoreAfter(b, inputs) ==
  IF inputs = <<>> THEN [articles |-> {}, next_id |-> 1]
  ELSE LET st == StoreAfter(b, SubSeq(inputs, 1, Len(inputs) - 1))
           a == inputs[Len(inputs)]
           res == IF b = "sqlite"
                    THEN add_article(st.articles, st.next_id, a, TRUE)
                  ELSE supabase_add_article(st.articles, st.next_id, a, TRUE)
       IN [articles |-> res.articles, next_id |-> res.next_id]

RankStores(b) ==
  {StoreAfter(b, inputs) :
     inputs \in UNION {[1..n -> RankArticleInputs] : n \in 0..MaxId}}

\* a caller adds a preference
AddPreference ==
  /\ ids.user_preferences < MaxPrefs
  /\ \E username \in Subscribers, d \in PrefInputs, weight \in Weights,
        embed_ok \in BOOLEAN :
       /\ ids.users < MaxUsers \/ get_user_id(users, username) # 0
       /\ LET res == add_user_preference_with_embedding(
                       backend, users, prefs, ids, username, d, weight,
                       embed_ok)
          IN /\ users' = res.users
             /\ prefs' = res.prefs
             /\ ids' = res.ids
             /\ last' = [op |-> "add_user_preference_with_embedding",
                         username |-> username, description |-> d,
                         weight |-> weight, outcome |-> res.outcome]
  /\ UNCHANGED <<storeVars, now, scrapeVars, worker, backend, history>>

\* a caller asks for a user's ranked articles
GetPersonalizedArticles ==
  /\ \E username \in Usernames, limit \in Limits :
       \E res \in (IF backend = "sqlite"
                        THEN get_personalized_articles(
                               users, prefs, articles, username, limit)
                      ELSE UNION {supabase_get_personalized_articles(
                                    users, prefs, articles, username, limit,
                                    rpc_ok, strict) :
                                  rpc_ok \in BOOLEAN, strict \in BOOLEAN}) :
         last' = [op |-> "get_personalized_articles",
                  username |-> username, limit |-> limit,
                  preferences |-> embedded_preferences(
                                    prefs, get_user_id(users, username)),
                  asked |-> candidates_asked(backend, limit),
                  pre |-> articles, raised |-> res.raised,
                  outcome |-> res.list]
  /\ UNCHANGED <<storeVars, now, scrapeVars, worker, userVars>>

RankInit ==
  /\ \E b \in Backends :
       /\ NoUsers(b)
       /\ \E st \in RankStores(b) :
            articles = st.articles /\ next_id = st.next_id
  /\ now = <<DAYS_OLD, 0>>
  /\ last = NoCall
  /\ feeds = [s \in Sources |-> <<>>]
  /\ run = [t \in Threads |-> IdleRun]
  /\ chain = <<>>
  /\ worker = [w \in Workers |-> IdleWorker]
  /\ sched = NewScheduler

RankNext == AddPreference \/ GetPersonalizedArticles

RankSpec == RankInit /\ [][RankNext]_vars

\* ---------------------------------------------- changes to preferences
\* an optional argument or JSON field: absent (None) or given
Absent == [given |-> FALSE]
Given(v) == [given |-> TRUE, value |-> v]

PrefIds == 1..MaxPrefs
DescUpdates == {Absent, Given("abcdef"), Given("")}
WeightUpdates == {Absent, Given(2)}

\* SupabaseDatabase.update_user_preference: the row's description and
\* weight are overwritten with what is given; api_ok is whether the remote
\* call answers
supabase_update_user_preference(ps, preference_id, description, weight, api_ok) ==
  IF ~description.given /\ ~weight.given
    THEN [outcome |-> "False", prefs |-> ps]
  ELSE IF ~api_ok THEN [outcome |-> "False", prefs |-> ps]
  ELSE [outcome |-> "True",
        prefs |-> {IF p.id # preference_id THEN p
                   ELSE [p EXCEPT
                           !.description = IF description.given
                                             THEN description.value ELSE @,
                           !.weight = IF weight.given THEN weight.value ELSE @] :
                   p \in ps}]

\* a caller updates a preference through the Supabase class
UpdateUserPreference ==
  /\ backend = "supabase"
  /\ \E preference_id \in PrefIds, description \in DescUpdates,
        weight \in WeightUpdates, api_ok \in BOOLEAN :
       LET res == supabase_update_user_preference(
                    prefs, preference_id, description, weight, api_ok)
       IN /\ prefs' = res.prefs
          /\ last' = [op |-> "update_user_preference",
                      outcome |-> res.outcome,
                      matched |-> \E p \in prefs : p.id = preference_id]
  /\ UNCHANGED <<storeVars, now, scrapeVars, worker, backend, users,
                 history, ids>>

\* PUT /api/user/preferences/<id> for the authenticated user: the status
\* of the response and the table after it. The description that reaches
\* create_preference_embedding is a str (the field of the body, or the
\* stored one)
put_user_preference(us, ps, username, preference_id, description, weight) ==
  LET uid == get_user_id(us, username)
      owned == {p \in ps : p.id = preference_id /\ p.user_id = uid}
      old == CHOOSE p \in owned : TRUE
      text == IF description.given THEN description.value ELSE old.description
      e == create_preference_embedding(
             [kind |-> "str", text |-> text, keywords |-> <<>>], TRUE)
  IN IF ~description.given /\ ~weight.given THEN [status |-> 400, prefs |-> ps]
     ELSE IF uid = 0 \/ owned = {} THEN [status |-> 404, prefs |-> ps]
     ELSE IF description.given /\ description.value = ""
       THEN [status |-> 400, prefs |-> ps]
     ELSE IF ~e.ok THEN [status |-> 500, prefs |-> ps]
     ELSE [status |-> 200,
           prefs |-> (ps \ owned) \cup
             {[old EXCEPT
                 !.description = text,
                 !.weight = IF weight.given THEN weight.value ELSE @,
                 !.embedding = serialize_embedding(e.embedding)]}]

\* a client updates a preference through the route
PutUserPreference ==
  /\ \E username \in Usernames, preference_id \in PrefIds,
        description \in DescUpdates, weight \in WeightUpdates :
       LET res == put_user_preference(users, prefs, username,
                                      preference_id, description, weight)
       IN /\ prefs' = res.prefs
          /\ last' = [op |-> "PUT /api/user/preferences",
                      outcome |-> res.status]
  /\ UNCHANGED <<storeVars, now, scrapeVars, worker, backend, users,
                 history, ids>>

\* ------------------------------------------- reading history, deletion
\* whether SQLite enforces FOREIGN KEY clauses: off unless a connection
\* executes PRAGMA foreign_keys = ON, which no connection of the program does
FOREIGN_KEYS == FALSE

ArticleIds == 1..2

\* NewsDatabase.add_reading_history: the user is looked up or created and
\* the row is inserted; the method returns None
add_reading_history(us, hs, seq, store, username, article_id) ==
  LET u == get_or_create_user(us, seq, username)
      hid == u.ids.reading_history + 1
  IN IF FOREIGN_KEYS /\ ~\E r \in store : r.id = article_id
       THEN [outcome |-> "raised", users |-> u.users, history |-> hs,
             ids |-> u.ids]
     ELSE [outcome |-> "returned", users |-> u.users,
           history |-> hs \cup {[id |-> hid, user_id |-> u.id,
                                 article_id |-> article_id]},
           ids |-> [u.ids EXCEPT !.reading_history = hid]]

\* SupabaseDatabase.add_reading_history: every exception, the one of a
\* rejected insert included, is logged and the method returns None;
\* insert_ok is whether the remote insert is accepted
supabase_add_reading_history(us, hs, seq, username, article_id, insert_ok) ==
  LET u == get_or_create_user(us, seq, username)
      hid == u.ids.reading_history + 1
  IN IF ~insert_ok
       THEN [outcome |-> "returned", users |-> u.users, history |-> hs,
             ids |-> u.ids]
     ELSE [outcome |-> "returned", users |-> u.users,
           history |-> hs \cup {[id |-> hid, user_id |-> u.id,
                                 article_id |-> article_id]},
           ids |-> [u.ids EXCEPT !.reading_history = hid]]

\* NewsDatabase.delete_user: DELETE FROM users WHERE id = ?; the rows of
\* the other tables go with it only where foreign keys are enforced.
\* response is what is typed at the prompt when confirm is False
delete_user(us, ps, hs, username, confirm, response) ==
  LET uid == get_user_id(us, username)
  IN IF uid = 0 \/ (~confirm /\ response # "yes")
       THEN [outcome |-> "False", users |-> us, prefs |-> ps, history |-> hs]
     ELSE [outcome |-> "True",
           users |-> {u \in us : u.id # uid},
           prefs |-> IF FOREIGN_KEYS THEN {p \in ps : p.user_id # uid}
                     ELSE ps,
           history |-> IF FOREIGN_KEYS THEN {h \in hs : h.user_id # uid}
                       ELSE hs]

\* SupabaseDatabase.delete_user: without confirm nothing is deleted; with
\* it the preferences, the history and the user are deleted one request
\* after the other, and the first `done` of the three requests succeed
supabase_delete_user(us, ps, hs, username, confirm, done) ==
  LET uid == get_user_id(us, username)
  IN IF uid = 0 \/ ~confirm
       THEN [outcome |-> "False", users |-> us, prefs |-> ps, history |-> hs]
     ELSE [outcome |-> IF done = 3 THEN "True" ELSE "False",
           users |-> IF done >= 3 THEN {u \in us : u.id # uid} ELSE us,
           prefs |-> IF done >= 1 THEN {p \in ps : p.user_id # uid} ELSE ps,
           history |-> IF done >= 2 THEN {h \in hs : h.user_id # uid}
                       ELSE hs]

\* a caller records an interaction of a user with an article
AddReadingHistory ==
  /\ ids.reading_history < MaxHistory
  /\ \E username \in Usernames, article_id \in ArticleIds,
        insert_ok \in BOOLEAN :
       /\ ids.users < MaxUsers \/ get_user_id(users, username) # 0
       /\ LET res == IF backend = "sqlite"
                       THEN add_reading_history(users, history, ids,
                                                articles, username, article_id)
                     ELSE supabase_add_reading_history(
                            users, history, ids, username, article_id,
                            insert_ok)
          IN /\ users' = res.users
             /\ history' = res.history
             /\ ids' = res.ids
             /\ last' = [op |-> "add_reading_history",
                         article_id |-> article_id,
                         outcome |-> res.outcome]
  /\ UNCHANGED <<storeVars, now, scrapeVars, worker, backend, prefs>>

\* a caller deletes a user
DeleteUser ==
  /\ \E username \in Usernames, confirm \in BOOLEAN,
        response \in {"yes", "no"}, done \in 0..3 :
       LET res == IF backend = "sqlite"
                    THEN delete_user(users, prefs, history, username,
                                     confirm, response)
                  ELSE supabase_delete_user(users, prefs, history, username,
                                            confirm, done)
       IN /\ users' = res.users
          /\ prefs' = res.prefs
          /\ history' = res.history
          /\ last' = [op |-> "delete_user", outcome |-> res.outcome,
                      user_id |-> get_user_id(users, username)]
  /\ UNCHANGED <<storeVars, now, scrapeVars, worker, backend, ids>>

\* the operations on users, preferences and reading history, on either
\* database class, over a store of one article
UserInit ==
  /\ \E b \in Backends :
       /\ NoUsers(b)
       /\ LET st == StoreAfter(b, <<[title |-> "a", url |-> "c",
                                     description |-> "d",
                                     published_date |-> <<1, 0>>,
                                     source |-> "A"]>>)
          IN articles = st.articles /\ next_id = st.next_id
  /\ now = <<DAYS_OLD, 0>>
  /\ last = NoCall
  /\ feeds = [s \in Sources |-> <<>>]
  /\ run = [t \in Threads |-> IdleRun]
  /\ chain = <<>>
  /\ worker = [w \in Workers |-> IdleWorker]
  /\ sched = NewScheduler

UserNext ==
  \/ AddPreference
  \/ UpdateUserPreference
  \/ PutUserPreference
  \/ AddReadingHistory
  \/ DeleteUser

UserSpec == UserInit /\ [][UserNext]_vars

\* ------------------------------------------------- damaged stored vectors
\* SQLite stores in which the BLOB of one article is no vector of the model:
\* its bytes are no pickle, or it holds a vector of another dimension
\* (written with EmbeddingService(model_name) for another model)
DamagedStores ==
  UNION {{[articles |-> (st.articles \ {r}) \cup
                        {[r EXCEPT !.embedding = serialize_embedding(v)]},
           next_id |-> st.next_id] :
            r \in st.articles, v \in {CORRUPT, OTHER_DIM}} :
         st \in RankStores("sqlite")}

DamagedInit ==
  /\ NoUsers("sqlite")
  /\ \E st \in DamagedStores :
       articles = st.articles /\ next_id = st.next_id
  /\ now = <<DAYS_OLD, 0>>
  /\ last = NoCall
  /\ feeds = [s \in Sources |-> <<>>]
  /\ run = [t \in Threads |-> IdleRun]
  /\ chain = <<>>
  /\ worker = [w \in Workers |-> IdleWorker]
  /\ sched = NewScheduler

DamagedSpec == DamagedInit /\ [][RankNext]_vars

\* ------------------------------------------------- articles with no vector
\* SQLite stores in which one article has no embedding: the column is
\* nullable and add_article is not the only writer of the file
UnembeddedStores ==
  UNION {{[articles |-> (st.articles \ {r}) \cup
                        {[r EXCEPT !.embedding = None]},
           next_id |-> st.next_id] : r \in st.articles} :
         st \in RankStores("sqlite")}

UnembeddedInit ==
  /\ NoUsers("sqlite")
  /\ \E st \in UnembeddedStores :
       articles = st.articles /\ next_id = st.next_id
  /\ now = <<DAYS_OLD, 0>>
  /\ last = NoCall
  /\ feeds = [s \in Sources |-> <<>>]
  /\ run = [t \in Threads |-> IdleRun]
  /\ chain = <<>>
  /\ worker = [w \in Workers |-> IdleWorker]
  /\ sched = NewScheduler

UnembeddedSpec == UnembeddedInit /\ [][RankNext]_vars

\* ------------------------------------------------- life of a stored item
\* every kind of call that reaches the SQLite store, over two articles of
\* the same URL, one of them older than the purge's cutoff
LifeArticles ==
  {[title |-> "a", url |-> "c", description |-> "d",
    published_date |-> <<0, 0>>, source |-> "A"],
   [title |-> "ab", url |-> "c", description |-> "d",
    published_date |-> <<1, 0>>, source |-> "A"]}

LifeAddArticle == AddArticle /\ last'.article \in LifeArticles

\* bob adds a first preference of weight 1
LifeAddPreference == prefs = {} /\ AddPreference /\ last'.weight = 1

\* bob asks for two ranked articles
LifeGetPersonalizedArticles ==
  GetPersonalizedArticles /\ last'.username = "bob" /\ last'.limit = 2

\* the scheduler's job thread runs scrape_all_feeds
LifeRun ==
  LET t == "job"
  IN StartRun(t) \/ Purge(t) \/ ScrapeFeed(t) \/ Return(t)

LifeNext ==
  \/ LifeAddArticle
  \/ LifeRun
  \/ LifeAddPreference
  \/ AddReadingHistory
  \/ LifeGetPersonalizedArticles

LifeSpec == Init /\ [][LifeNext]_vars

\* ------------------------------------------------------- the HTTP routes
\* the routes of app.py that carry @token_required
ProtectedRoutes ==
  {"GET /api/articles/recommended", "GET /api/articles/latest",
   "GET /api/user/preferences", "POST /api/user/preferences",
   "PUT /api/user/preferences/<id>", "DELETE /api/user/preferences/<id>",
   "GET /api/user/reading-history", "POST /api/scrape",
   "DELETE /api/user/account"}

\* what a request carries in its Authorization header: nothing, a string
\* jwt.decode rejects, a token past its exp, or a token generate_token
\* issued to a registered user
Tokens ==
  [kind : {"missing", "invalid", "expired"}, username : {"bob"},
   user_id : {1}] \cup
  {[kind |-> "valid", username |-> "bob", user_id |-> 1],
   [kind |-> "valid", username |-> "amy", user_id |-> 2]}

\* a decorator that catches only InvalidTokenError
token_required_ExpiredAccepted(token) ==
  IF token.kind \in {"missing", "invalid"}
    THEN [status |-> 401, user_id |-> 0, username |-> ""]
  ELSE [status |-> 0, user_id |-> token.user_id, username |-> token.username]

\* token_required: 401 without calling the route's function for a missing,
\* expired or invalid token; otherwise the function is called with the
\* token's user_id and username (status 0: no answer yet)
token_required(token) ==
  IF token.kind \in {"missing", "expired", "invalid"}
    THEN [status |-> 401, user_id |-> 0, username |-> ""]
  ELSE [status |-> 0, user_id |-> token.user_id, username |-> token.username]

\* the user id a preference route filters by: the token's on SQLite, the
\* row found by get_user_by_username on Supabase (0: no such user)
owner_filter(b, us, auth) ==
  IF b = "sqlite" THEN auth.user_id ELSE get_user_id(us, auth.username)

\* update_user_preference (PUT): as put_user_preference, for the user id
\* the route filters by
put_preference_route(uid, ps, preference_id, description, weight) ==
  LET owned == {p \in ps : p.id = preference_id /\ p.user_id = uid}
      old == CHOOSE p \in owned : TRUE
      text == IF description.given THEN description.value ELSE old.description
      e == create_preference_embedding(
             [kind |-> "str", text |-> text, keywords |-> <<>>], TRUE)
  IN IF ~description.given /\ ~weight.given THEN [status |-> 400, prefs |-> ps]
     ELSE IF uid = 0 \/ owned = {} THEN [status |-> 404, prefs |-> ps]
     ELSE IF description.given /\ description.value = ""
       THEN [status |-> 400, prefs |-> ps]
     ELSE IF ~e.ok THEN [status |-> 500, prefs |-> ps]
     ELSE [status |-> 200,
           prefs |-> (ps \ owned) \cup
             {[old EXCEPT
                 !.description = text,
                 !.weight = IF weight.given THEN weight.value ELSE @,
                 !.embedding = serialize_embedding(e.embedding)]}]

\* a DELETE that filters by the preference id alone
delete_preference_route_AnyOwner(uid, ps, preference_id, api_ok) ==
  LET owned == {p \in ps : p.id = preference_id}
  IN IF uid = 0 \/ owned = {} THEN [status |-> 404, prefs |-> ps]
     ELSE IF ~api_ok THEN [status |-> 500, prefs |-> ps]
     ELSE [status |-> 200, prefs |-> ps \ owned]

\* delete_user_preference (DELETE): 404 unless a row has the id and the
\* caller's user id; that row is deleted; a failing statement is a 500
delete_preference_route(uid, ps, preference_id, api_ok) ==
  LET owned == {p \in ps : p.id = preference_id /\ p.user_id = uid}
  IN IF uid = 0 \/ owned = {} THEN [status |-> 404, prefs |-> ps]
     ELSE IF ~api_ok THEN [status |-> 500, prefs |-> ps]
     ELSE [status |-> 200, prefs |-> ps \ owned]

\* the answers of a route's function and the tables after it, for the
\* authenticated caller auth and the request's path id and body req
route_function(route, auth, b, us, ps, hs, seq, store, req) ==
  LET preference_id == req.preference_id
      description == req.description
      weight == req.weight
      same(st) == [status |-> st, users |-> us, prefs |-> ps,
                   history |-> hs, ids |-> seq]
      uid == owner_filter(b, us, auth)
  IN CASE route = "GET /api/articles/recommended" ->
            {same(IF r.raised THEN 500 ELSE 200) :
               r \in (IF b = "sqlite"
                        THEN get_personalized_articles(
                               us, ps, store, auth.username, 2)
                      ELSE UNION {supabase_get_personalized_articles(
                                    us, ps, store, auth.username, 2,
                                    rpc_ok, strict) :
                                  rpc_ok \in BOOLEAN, strict \in BOOLEAN})}
       [] route \in {"GET /api/articles/latest", "GET /api/user/preferences",
                     "GET /api/user/reading-history"} ->
            {same(200)}
       [] route = "POST /api/user/preferences" ->
            IF ~description.given \/ description.value = ""
              THEN {same(400)}
            ELSE LET res == add_user_preference_with_embedding(
                              b, us, ps, seq, auth.username,
                              [kind |-> "str", text |-> description.value,
                               keywords |-> <<>>],
                              IF weight.given THEN weight.value ELSE 1, TRUE)
                 IN {[status |-> IF res.outcome = "raised" THEN 500 ELSE 201,
                      users |-> res.users, prefs |-> res.prefs,
                      history |-> hs, ids |-> res.ids]}
       [] route = "PUT /api/user/preferences/<id>" ->
            LET res == put_preference_route(uid, ps, preference_id,
                                            description, weight)
            IN {[same(res.status) EXCEPT !.prefs = res.prefs]}
       [] route = "DELETE /api/user/preferences/<id>" ->
            {[same(res.status) EXCEPT !.prefs = res.prefs] :
               res \in {delete_preference_route(uid, ps, preference_id, ok) :
                          ok \in BOOLEAN}}
       [] route = "DELETE /api/user/account" ->
            {[status |-> IF res.outcome = "True" THEN 200 ELSE 500,
              users |-> res.users, prefs |-> res.prefs,
              history |-> res.history, ids |-> seq] :
               res \in (IF b = "sqlite"
                          THEN {delete_user(us, ps, hs, auth.username,
                                            TRUE, "")}
                        ELSE {supabase_delete_user(us, ps, hs, auth.username,
                                                   TRUE, done) :
                                done \in 0..3})}

\* the <id> of the path, for the routes that have one (0: none)
PathIds(route) ==
  IF route \in {"PUT /api/user/preferences/<id>",
                "DELETE /api/user/preferences/<id>"}
    THEN PrefIds
  ELSE {0}

\* the JSON body of the request, for the routes that read one
Bodies(route) ==
  IF route \in {"POST /api/user/preferences",
                "PUT /api/user/preferences/<id>"}
    THEN {[description |-> Absent, weight |-> Absent],
          [description |-> Given("abcdef"), weight |-> Absent],
          [description |-> Absent, weight |-> Given(2)]}
  ELSE {[description |-> Absent, weight |-> Absent]}

\* a request to a protected route: the decorator answers it, or the
\* route's function does
ApiRequest ==
  /\ \E route \in ProtectedRoutes, token \in Tokens :
      \E preference_id \in PathIds(route), body \in Bodies(route) :
       LET auth == token_required(token)
           description == body.description
           weight == body.weight
       IN IF auth.status = 401
            THEN /\ last' = [op |-> "request", route |-> route,
                             token |-> token, preference_id |-> preference_id,
                             handled |-> FALSE, status |-> 401]
                 /\ UNCHANGED userVars
          ELSE /\ route # "POST /api/scrape"
               /\ \E res \in route_function(
                                route, auth, backend, users, prefs, history,
                                ids, articles,
                                [preference_id |-> preference_id,
                                 description |-> description,
                                 weight |-> weight]) :
                    /\ res.ids.users <= MaxUsers + 1
                    /\ users' = res.users
                    /\ prefs' = res.prefs
                    /\ history' = res.history
                    /\ ids' = res.ids
                    /\ last' = [op |-> "request", route |-> route,
                                token |-> token,
                                preference_id |-> preference_id,
                                handled |-> TRUE, status |-> res.status]
               /\ UNCHANGED backend
  /\ UNCHANGED <<storeVars, now, scrapeVars, worker>>

\* trigger_scrape for an authenticated caller: scrape_all_feeds runs on the
\* request's thread
TriggerScrape == run["req"].pc = "idle" /\ StartRun("req")

\* the steps of that run, every feed of which is fetched
ApiRun ==
  LET t == "req"
  IN Purge(t) \/ (ScrapeFeed(t) /\ run'[t].failed = {}) \/ Return(t)

\* both users are registered (POST /api/auth/register) and one article is
\* stored; preferences are added by direct calls of the database class
ApiInit ==
  /\ \E b \in Backends :
       /\ backend = b
       /\ LET st == StoreAfter(b, <<[title |-> "a", url |-> "c",
                                     description |-> "d",
                                     published_date |-> <<1, 0>>,
                                     source |-> "A"]>>)
          IN articles = st.articles /\ next_id = st.next_id
  /\ users = {[id |-> 1, username |-> "bob"], [id |-> 2, username |-> "amy"]}
  /\ prefs = {}
  /\ history = {}
  /\ ids = [users |-> 2, user_preferences |-> 0, reading_history |-> 0]
  /\ now = <<DAYS_OLD, 0>>
  /\ last = NoCall
  /\ feeds = [s \in Sources |-> <<>>]
  /\ run = [t \in Threads |-> IdleRun]
  /\ chain = <<>>
  /\ worker = [w \in Workers |-> IdleWorker]
  /\ sched = NewScheduler

\* a direct call that stores a preference of bob's
ApiAddPreference ==
  /\ AddPreference
  /\ last'.weight = 1
  /\ last'.description = [kind |-> "list", text |-> "",
                          keywords |-> <<"a", "d">>]

ApiNext == ApiRequest \/ TriggerScrape \/ ApiRun \/ ApiAddPreference

ApiSpec == ApiInit /\ [][ApiNext]_vars

\* ----------------------------------------------- retention after a run
\* runs that start a day after the stored items' window has passed: the
\* clock stands still, so every purge of a run uses the same cutoff
RetentionInit ==
  /\ \E st \in InitStores : articles = st.articles /\ next_id = st.next_id
  /\ now = <<DAYS_OLD + 1, 0>>
  /\ last = NoCall
  /\ feeds \in [Sources -> FeedsA \cup FeedsB]
  /\ feeds["A"] \in FeedsA /\ feeds["B"] \in FeedsB
  /\ run = [t \in Threads |-> IdleRun]
  /\ chain = <<>>
  /\ worker = [w \in Workers |-> IdleWorker]
  /\ sched = NewScheduler
  /\ NoUsers("sqlite")

RetentionNext ==
  \E t \in Threads : StartRun(t) \/ Purge(t) \/ ScrapeFeed(t) \/ Return(t)

RetentionSpec == RetentionInit /\ [][RetentionNext]_vars

\* ------------------------------------------ concurrent get_or_create_user
\* a caller that is not inside get_or_create_user
IdleCaller == [pc |-> "idle", username |-> "", id |-> 0]

\* get_or_create_user, line 483: caller w looks the username up; the call
\* returns the id it finds, or goes on to create_user when it finds none
LookupUser(w) ==
  /\ worker[w].pc = "idle"
  /\ \E username \in Usernames :
       LET uid == get_user_id(users, username)
       IN worker' = [worker EXCEPT ![w] =
                       [pc |-> IF uid = 0 THEN "create" ELSE "returned",
                        username |-> username, id |-> uid]]
  /\ UNCHANGED <<storeVars, now, last, scrapeVars, userVars>>

\* create_user, lines 452-468: the INSERT, which UNIQUE(username) turns
\* into an IntegrityError, raised as ValueError, when the name is stored
CreateUser(w) ==
  /\ worker[w].pc = "create"
  /\ IF get_user_id(users, worker[w].username) # 0
       THEN /\ worker' = [worker EXCEPT ![w].pc = "raised"]
            /\ UNCHANGED <<users, ids>>
     ELSE /\ ids.users < MaxUsers
          /\ users' = users \cup {[id |-> ids.users + 1,
                                   username |-> worker[w].username]}
          /\ ids' = [ids EXCEPT !.users = @ + 1]
          /\ worker' = [worker EXCEPT ![w].pc = "returned",
                                      ![w].id = ids.users + 1]
  /\ UNCHANGED <<storeVars, now, last, scrapeVars, backend, prefs, history>>

\* the caller takes the result and may call again
CallerDone(w) ==
  /\ worker[w].pc \in {"returned", "raised"}
  /\ worker' = [worker EXCEPT ![w] = IdleCaller]
  /\ UNCHANGED <<storeVars, now, last, scrapeVars, userVars>>

GetOrCreateInit ==
  /\ \E st \in InitStores : articles = st.articles /\ next_id = st.next_id
  /\ now = <<DAYS_OLD, 0>>
  /\ last = NoCall
  /\ feeds = [s \in Sources |-> <<>>]
  /\ run = [t \in Threads |-> IdleRun]
  /\ chain = <<>>
  /\ worker = [w \in Workers |-> IdleCaller]
  /\ sched = NewScheduler
  /\ NoUsers("sqlite")

GetOrCreateNext ==
  \E w \in Workers : LookupUser(w) \/ CreateUser(w) \/ CallerDone(w)

GetOrCreateSpec == GetOrCreateInit /\ [][GetOrCreateNext]_vars

\* ---------------------------------------------------------- the scheduler
\* BackgroundScheduler.add_job: ids are unique in the job store; a job
\* whose id is stored is replaced when replace_existing is set and is a
\* ConflictingIdError otherwise
add_job(jobs, id, replace_existing) ==
  IF \E k \in 1..Len(jobs) : jobs[k] = id
    THEN [ok |-> replace_existing, jobs |-> jobs]
  ELSE [ok |-> TRUE, jobs |-> Append(jobs, id)]

\* a start_scheduler without the test of is_running
start_scheduler_NoGuard(s) ==
  LET periodic == add_job(s.jobs, "news_scraping_job", TRUE)
      initial == add_job(periodic.jobs, "initial_scrape", FALSE)
  IN IF ~initial.ok THEN [s EXCEPT !.jobs = periodic.jobs]
     ELSE [is_running |-> TRUE, state |-> "running", jobs |-> initial.jobs,
           starts |-> s.starts + 1]

\* NewsScrapingScheduler.start_scheduler: the scheduler after the call
start_scheduler(s) ==
  IF s.is_running THEN s
  ELSE LET periodic == add_job(s.jobs, "news_scraping_job", TRUE)
           initial == add_job(periodic.jobs, "initial_scrape", FALSE)
       IN IF ~initial.ok THEN [s EXCEPT !.jobs = periodic.jobs]
          ELSE [is_running |-> TRUE, state |-> "running",
                jobs |-> initial.jobs, starts |-> s.starts + 1]

\* NewsScrapingScheduler.stop_scheduler: shutdown() stops the scheduler and
\* empties its in-memory job store
stop_scheduler(s) ==
  IF ~s.is_running THEN s
  ELSE [s EXCEPT !.is_running = FALSE, !.state = "stopped", !.jobs = <<>>]

\* how many jobs with this id the job store holds
Registered(s, id) == Cardinality({k \in 1..Len(s.jobs) : s.jobs[k] = id})

StartScheduler ==
  /\ sched.is_running \/ sched.starts < MaxStarts
  /\ sched' = start_scheduler(sched)
  /\ last' = [op |-> "start_scheduler", pre |-> sched]
  /\ UNCHANGED <<storeVars, now, feeds, run, chain, worker, userVars>>

\* shutdown() waits for the job that is executing
StopScheduler ==
  /\ ~sched.is_running \/ ~Active("job")
  /\ sched' = stop_scheduler(sched)
  /\ last' = [op |-> "stop_scheduler", pre |-> sched]
  /\ UNCHANGED <<storeVars, now, feeds, run, chain, worker, userVars>>

\* the running scheduler fires a job that is due: scrape_job enters
\* scrape_all_feeds on the job thread; the one-off job leaves the store
FireJob ==
  /\ sched.state = "running"
  /\ run["job"].pc \in {"idle", "done"}
  /\ \E k \in 1..Len(sched.jobs) :
       sched' = [sched EXCEPT !.jobs =
                   IF sched.jobs[k] = "initial_scrape"
                     THEN SubSeq(@, 1, k - 1) \o SubSeq(@, k + 1, Len(@))
                   ELSE @]
  /\ run' = Entered("job").run
  /\ chain' = Entered("job").chain
  /\ UNCHANGED <<storeVars, now, last, feeds, worker, userVars>>

\* the steps of scrape_job's run
JobRun == LET t == "job" IN Purge(t) \/ ScrapeFeed(t) \/ Return(t)

SchedulerInit ==
  /\ sched = NewScheduler
  /\ \E st \in InitStores : articles = st.articles /\ next_id = st.next_id
  /\ now = <<DAYS_OLD, 0>>
  /\ last = NoCall
  /\ feeds = [s \in Sources |-> <<>>]
  /\ run = [t \in Threads |-> IdleRun]
  /\ chain = <<>>
  /\ worker = [w \in Workers |-> IdleWorker]
  /\ NoUsers("supabase")

SchedulerNext == StartScheduler \/ StopScheduler \/ FireJob \/ JobRun

SchedulerSpec == SchedulerInit /\ [][SchedulerNext]_vars

\* ------------------------------------------------------------- properties
ValidEntry(e) == e.title # "" /\ e.link # ""

\* C1: a run over a feed A that serves one record with a title and a link,
\* against an empty store, returns a count of 1 for A and leaves exactly one
\* stored item.
C1_IngestOneNew ==
  \A t \in Threads :
    ( /\ run[t].pc = "done" /\ run[t].solo /\ run[t].failed = {}
      /\ run[t].pre = {}
      /\ Len(feeds["A"]) = 1 /\ ValidEntry(feeds["A"][1])
      /\ feeds["B"] = <<>> )
    => /\ run[t].results["A"] = 1
       /\ Cardinality(run[t].post) = 1

\* C2: of two runs of scrape_all_feeds made one after the other against the
\* same feeds, the second finds no new item: its total is 0.
C2_SecondRunZero ==
  Len(chain) >= 2 => chain[Len(chain)] = 0

C2_Witness ==
  /\ Len(chain) >= 2
  /\ feeds["A"] = <<EntryA("a", <<0, 0>>)>>

\* C3: no two stored items share a URL or a fingerprint, and an add_article
\* whose URL is already stored returns False, does not raise and leaves the
\* stored items as they were.
C3_DedupGate ==
  /\ \A r1, r2 \in articles :
       r1 # r2 => r1.url # r2.url /\ r1.content_hash # r2.content_hash
  /\ ( /\ last.op = "add_article"
       /\ \E r \in last.pre : r.url = last.article.url )
     => last.outcome = "False" /\ articles = last.pre

\* C4: two different (title, url, description) triples never give the same
\* input to the fingerprint hash, so an article is rejected only when its
\* URL or its whole triple is already stored.
C4_BoundarySafe ==
  (last.op = "add_article" /\ last.embed_ok) =>
    /\ \A r \in last.pre :
         Triple(r) # Triple(last.article) =>
           content_for_hash(r) # content_for_hash(last.article)
    /\ last.outcome = "False" =>
         \E r \in last.pre :
           r.url = last.article.url \/ Triple(r) = Triple(last.article)

\* C5: delete_old_articles removes exactly the items published strictly
\* before the cutoff or without a published date, returns how many it
\* removed, and keeps an item published exactly at the cutoff.
Stale(r, cutoff) ==
  r.published_date = None \/ Before(fromisoformat(r.published_date), cutoff)

C5_PurgeBoundary ==
  last.op = "delete_old_articles" =>
    LET stale == {r \in last.pre : Stale(r, last.cutoff)}
    IN articles = last.pre \ stale /\ last.outcome = Cardinality(stale)

\* C6: a source whose processing raises gets the count 0, the sources after
\* it are still processed, and the run returns one count per source without
\* raising.
C6_FailureIsolation ==
  \A t \in Threads :
    /\ run[t].pc = "feeds" =>
         DOMAIN run[t].results = {rss_feeds[j] : j \in 1..(run[t].i - 1)}
    /\ run[t].pc = "done" =>
         /\ run[t].outcome = "returned"
         /\ DOMAIN run[t].results = Sources
         /\ \A s \in run[t].failed : run[t].results[s] = 0

C6_Witness ==
  \E t \in Threads :
    /\ run[t].pc = "done"
    /\ run[t].failed = {"A"}
    /\ "B" \in DOMAIN run[t].results

\* C7: when the embedding of a new record cannot be generated, add_article
\* still stores the record, without a vector.
C7_EmbeddingFailureNonFatal ==
  ( /\ last.op = "add_article"
    /\ ~last.embed_ok
    /\ ~IntegrityError(last.pre, last.article.url,
                       md5(content_for_hash(last.article))) )
  => /\ last.outcome = "True"
     /\ \E r \in articles : r.url = last.article.url /\ r.embedding = None

\* C8: at no instant are two executions of scrape_all_feeds active.
C8_MutualExclusion ==
  Cardinality({t \in Threads : Active(t)}) <= 1

\* C9: of two add_article calls that run at the same time for records with
\* the same URL or the same fingerprint, not stored before, exactly one
\* returns True, the other returns False, and one row is stored for them.
SameItem(a, b) ==
  a.url = b.url \/ content_for_hash(a) = content_for_hash(b)

C9_AtomicInsertIfAbsent ==
  LET c1 == worker["w1"]
      c2 == worker["w2"]
  IN ( /\ c1.pc = "idle" /\ c2.pc = "idle"
       /\ c1.article.ok /\ c2.article.ok
       /\ c1.ov /\ c2.ov /\ c1.fresh /\ c2.fresh
       /\ SameItem(c1.article.article, c2.article.article) )
     => /\ {c1.outcome, c2.outcome} = {"True", "False"}
        /\ Cardinality({r \in articles :
                          \/ /\ c1.article.article.url = c2.article.article.url
                             /\ r.url = c1.article.article.url
                          \/ /\ content_for_hash(c1.article.article)
                                  = content_for_hash(c2.article.article)
                             /\ content_for_hash(r)
                                  = content_for_hash(c1.article.article)}) = 1

\* C10: for a user with at least one embedded preference,
\* get_personalized_articles returns at most `limit` pairs, in non-increasing
\* order of score, each score being the sum over the user's preferences of
\* similarity(article, preference) * weight; with one preference and one
\* candidate the result is that candidate alone, with score s * w
C10_RankingScoreAndOrder ==
  (last.op = "get_personalized_articles" /\ last.preferences # {}) =>
    LET res == last.outcome
        row(i) == CHOOSE r \in last.pre : r.id = res[i][1]
        candidates == {r \in last.pre : r.embedding # None}
    IN /\ Len(res) <= last.limit
       /\ \A i \in 1..(Len(res) - 1) : ~ScoreLess(res[i][2], res[i + 1][2])
       /\ \A i \in 1..Len(res) :
            ScoreEq(res[i][2],
                    Halves(total_score(row(i).embedding, last.preferences)))
       /\ (Cardinality(last.preferences) = 1 /\ Cardinality(candidates) = 1)
             => (Len(res) = 1 /\ \E r \in candidates : res[1][1] = r.id)

\* the instant a stored row was published
PublishedAt(r) == fromisoformat(r.published_date)

\* two entries of the last ranking that have equal scores and two different
\* published dates, the entry at i listed before the entry at j
EqualScoresAt(i, j) ==
  LET res == last.outcome
      ri == CHOOSE r \in last.pre : r.id = res[i][1]
      rj == CHOOSE r \in last.pre : r.id = res[j][1]
  IN /\ i < j
     /\ ScoreEq(res[i][2], res[j][2])
     /\ ri.published_date # None /\ rj.published_date # None
     /\ PublishedAt(ri) # PublishedAt(rj)

\* C11: in a list returned by NewsDatabase.get_personalized_articles, of two
\* articles with equal scores the one published more recently comes first
C11_TieBreakByRecency ==
  (backend = "sqlite" /\ last.op = "get_personalized_articles") =>
    \A i, j \in 1..Len(last.outcome) :
      EqualScoresAt(i, j) =>
        Before(PublishedAt(CHOOSE r \in last.pre : r.id = last.outcome[j][1]),
               PublishedAt(CHOOSE r \in last.pre : r.id = last.outcome[i][1]))

\* a ranking by preferences on SQLite that lists two articles of equal score
\* and different dates
C11_Witness ==
  /\ backend = "sqlite" /\ last.op = "get_personalized_articles"
  /\ last.preferences # {}
  /\ \E i, j \in 1..Len(last.outcome) : EqualScoresAt(i, j)

\* row x was published before row y; a row without a date counts as
\* published before every dated row
PublishedBefore(x, y) ==
  IF x.published_date = None THEN y.published_date # None
  ELSE y.published_date # None /\ Before(PublishedAt(x), PublishedAt(y))

Damaged(r) ==
  r.embedding # None /\ r.embedding[2] \in {CORRUPT, OTHER_DIM}

\* C13: when the stored vector of exactly one candidate is corrupt or of
\* another dimension, get_personalized_articles does not raise and returns
\* the ranking of the other candidates
C13_DamagedCandidateOmitted ==
  (/\ last.op = "get_personalized_articles" /\ last.preferences # {}
   /\ Cardinality({r \in last.pre : Damaged(r)}) = 1) =>
    /\ ~last.raised
    /\ \E res \in get_personalized_articles(
                     users, prefs, {r \in last.pre : ~Damaged(r)},
                     last.username, last.limit) :
         ~res.raised /\ res.list = last.outcome

\* C14: in every reachable state the embedding stored with a preference is
\* the embedding of the preference's current description
C14_PreferenceEmbeddingFresh ==
  \A p \in prefs : EmbDir(p.embedding) = model_encode(p.description)

\* C15: after delete_user(username, confirm=True) has returned True the user
\* is gone and no preference and no reading-history row carries the user's
\* id; and in every reachable state each preference belongs to an existing
\* user
C15_CascadeDelete ==
  /\ (last.op = "delete_user" /\ last.outcome = "True") =>
       /\ ~\E u \in users : u.id = last.user_id
       /\ ~\E p \in prefs : p.user_id = last.user_id
       /\ ~\E h \in history : h.user_id = last.user_id
  /\ \A p \in prefs : \E u \in users : u.id = p.user_id

\* C16: after add_user_preference_with_embedding(username, description,
\* weight) with a free-text description the call has returned, the user
\* exists, get_user_preferences(username) contains (description, weight) and
\* get_user_preferences_with_ids(username) contains it with an id
C16_AddFreeTextPreference ==
  (/\ last.op = "add_user_preference_with_embedding"
   /\ last.description.kind = "str") =>
    /\ last.outcome = "returned"
    /\ get_user_id(users, last.username) # 0
    /\ <<last.description.text, last.weight>> \in
         get_user_preferences(users, prefs, last.username)
    /\ \E t \in get_user_preferences_with_ids(users, prefs, last.username) :
         t[2] = last.description.text /\ t[3] = last.weight

\* C17: a write that violates the integrity of the store is reported to its
\* caller as a failure: add_reading_history for an article id that does not
\* exist does not return normally, and update_user_preference for a
\* preference id that matches no row does not answer True
C17_IntegrityViolationSurfaced ==
  /\ (/\ last.op = "add_reading_history"
      /\ ~\E r \in articles : r.id = last.article_id) =>
       last.outcome = "raised"
  /\ (last.op = "update_user_preference" /\ ~last.matched) =>
       last.outcome = "False"

\* the stored article of an entry of a ranking
ArticleOf(entry) == CHOOSE r \in last.pre : r.id = entry[1]

\* C18: when the user has at least one embedded preference, no article
\* without a stored vector appears in the result of
\* get_personalized_articles, with a score of 0 or any other
C18_UnembeddedExcluded ==
  (/\ last.op = "get_personalized_articles" /\ backend = "sqlite"
   /\ last.preferences # {}) =>
    \A i \in DOMAIN last.outcome :
      ArticleOf(last.outcome[i]).embedding # None

\* a ranking for a user with an embedded preference over a store that holds
\* an article without a vector and others with one, shorter than the limit
\* only because the article without a vector was left out
C18_Witness ==
  /\ last.op = "get_personalized_articles" /\ backend = "sqlite"
  /\ last.preferences # {} /\ ~last.raised
  /\ \E r \in last.pre : r.embedding = None
  /\ Len(last.outcome) = 1 /\ last.limit = 2
  /\ Cardinality(last.pre) = 2

\* C19: the number of candidates a ranking asks the store for is k times
\* the requested limit for some whole k > 1, and the returned list has
\* min(limit, number of articles with a vector) entries
C19_PoolOverFetch ==
  (/\ last.op = "get_personalized_articles" /\ last.preferences # {}
   /\ ~last.raised) =>
    /\ \E k \in 2..POOL : last.asked = k * last.limit
    /\ LET embedded == {r \in last.pre : r.embedding # None}
       IN Len(last.outcome) =
            IF Cardinality(embedded) < last.limit THEN Cardinality(embedded)
            ELSE last.limit

\* the feeds before position i of rss_feeds
FeedsBefore(i) == {rss_feeds[j] : j \in 1..(i - 1)}

\* C20: in every run of scrape_all_feeds the purge is attempted exactly
\* once, before any feed is fetched and any article inserted by the run; the
\* feeds are processed in their configured order whatever the counts are,
\* and the run returns one count per feed
C20_RunOrdering ==
  \A t \in Threads :
    /\ run[t].pc = "purge" =>
         /\ run[t].purges = 0
         /\ run[t].i = 1 /\ run[t].results = <<>> /\ run[t].failed = {}
    /\ run[t].pc \in {"feeds", "done"} => run[t].purges = 1
    /\ run[t].pc = "feeds" => DOMAIN run[t].results = FeedsBefore(run[t].i)
    /\ run[t].pc = "done" =>
         /\ run[t].outcome = "returned"
         /\ DOMAIN run[t].results = Sources

\* a run has returned after a feed that failed and was counted 0
C20_Witness ==
  \E t \in Threads :
    /\ run[t].pc = "done" /\ run[t].outcome = "returned"
    /\ run[t].purges = 1
    /\ run[t].failed = {rss_feeds[1]}
    /\ DOMAIN run[t].results = Sources

\* C21: within a run a feed only moves forward: once it is done its count
\* stays, once it has failed it stays failed and is not processed again; and
\* every run that has started reaches its return with every feed done or
\* failed
C21_SourceStateMachine ==
  /\ [][\A t \in Threads :
          (run[t].pc = "feeds" /\ run'[t].pc \in {"feeds", "done"}) =>
            \A s \in Sources :
              /\ SourceState(run[t], s) = "failed" =>
                   SourceState(run'[t], s) = "failed"
              /\ SourceState(run[t], s) = "done" =>
                   /\ SourceState(run'[t], s) = "done"
                   /\ run'[t].results[s] = run[t].results[s]
              /\ SourceState(run[t], s) # "pending" =>
                   run'[t].i > CHOOSE j \in 1..Len(rss_feeds) : rss_feeds[j] = s]_vars
  /\ \A t \in Threads :
       (run[t].pc = "purge") ~>
         (/\ run[t].pc = "done" /\ run[t].outcome = "returned"
          /\ \A s \in Sources : SourceState(run[t], s) \in {"done", "failed"})

\* a run has returned with its first feed failed and its second feed done
C21_Witness ==
  \E t \in Threads :
    /\ run[t].pc = "done"
    /\ SourceState(run[t], rss_feeds[1]) = "failed"
    /\ SourceState(run[t], rss_feeds[2]) = "done"

\* C22: in every step, whatever call takes it, an article that stays stored
\* keeps its title, URL, description, published date, source, fingerprint
\* and vector, and an article that leaves the store is one the age-based
\* purge selects
C22_StoredItemsImmutable ==
  [][\A r \in articles :
       /\ \A q \in articles' : q.id = r.id => q = r
       /\ (\A q \in articles' : q.id # r.id) =>
            PurgeWhere(r, isoformat(cutoff_date(now, DAYS_OLD)))]_vars

\* an article is stored after a run has returned, a preference and an
\* interaction were recorded, and an insert of its URL has been refused
C22_Witness ==
  /\ articles # {} /\ prefs # {} /\ history # {}
  /\ run["job"].pc = "done"
  /\ last.op = "add_article" /\ last.outcome = "False"
  /\ \E r \in articles : r.url = last.article.url /\ r.title # last.article.title

\* two rankings list the same articles in the same order with equal scores
SameRanking(l1, l2) ==
  /\ Len(l1) = Len(l2)
  /\ \A i \in DOMAIN l1 : l1[i][1] = l2[i][1] /\ ScoreEq(l1[i][2], l2[i][2])

\* C23: for the same stored users, preferences and articles and the same
\* (username, limit), what SupabaseDatabase.get_personalized_articles
\* returns is a list NewsDatabase.get_personalized_articles can return:
\* the same articles in the same order with the same scores
C23_BackendsInterchangeable ==
  (last.op = "get_personalized_articles" /\ backend = "supabase") =>
    \E res \in get_personalized_articles(users, prefs, last.pre,
                                         last.username, last.limit) :
      ~res.raised /\ SameRanking(res.list, last.outcome)

\* C24: a request to a protected route without a token, or with an invalid
\* or expired one, is answered 401 by the decorator: the route's function
\* is not called, no table changes and no ingestion run starts
C24_ProtectedNeedAuth ==
  [][(last' # last /\ last'.op = "request" /\ last'.token.kind # "valid")
       => /\ last'.status = 401
          /\ ~last'.handled
          /\ UNCHANGED <<articles, next_id, users, prefs, history, ids,
                         run, chain>>]_vars

C24_Witness ==
  /\ last.op = "request"
  /\ last.route = "POST /api/scrape"
  /\ last.token.kind = "expired"
  /\ last.status = 401
  /\ prefs # {}
  /\ run["req"].pc = "idle"

\* the preference row p belongs to the user the token was issued to: the
\* row carries the token's user id, or the id of the user of that name
Owns(token, p) ==
  \/ p.user_id = token.user_id
  \/ \E u \in users : u.id = p.user_id /\ u.username = token.username

\* the request just answered was a PUT or DELETE of one preference, made
\* with a valid token, for a preference that belongs to another user
ForeignPreferenceRequest ==
  /\ last' # last
  /\ last'.op = "request"
  /\ last'.handled
  /\ last'.route \in {"PUT /api/user/preferences/<id>",
                      "DELETE /api/user/preferences/<id>"}
  /\ \E p \in prefs : /\ p.id = last'.preference_id
                      /\ ~Owns(last'.token, p)

AddedBy(r, store, s) ==
  {x \in store : x.source = s /\ \A q \in r.pre : q.id # x.id}

PublishedBeforeCutoff(r, cutoff) ==
  r.published_date # None /\ Before(fromisoformat(r.published_date), cutoff)

\* C26: when scrape_all_feeds returns, no stored item was published before
\* the cutoff (three days before the purge) the run's purge used
C26_RetentionAfterRun ==
  \A t \in Threads :
    run[t].pc = "done" =>
      \A r \in run[t].post :
        ~PublishedBeforeCutoff(r, cutoff_date(now, DAYS_OLD))

\* C27: an add_user_preference_with_embedding that raises leaves the users,
\* the preferences and the reading history as they were; no user row is
\* created for a username that did not exist
C27_FailedAddChangesNothing ==
  [][( /\ last' # last
       /\ last'.op = "add_user_preference_with_embedding"
       /\ last'.outcome = "raised" )
       => UNCHANGED <<users, prefs, history>>]_vars

\* C28: every call of get_or_create_user that has ended, alone or while
\* another call for the same username was in flight, returned without
\* raising, and returned the id of the one user row with that username
C28_GetOrCreateConcurrent ==
  \A w \in Workers :
    worker[w].pc \in {"returned", "raised"} =>
      /\ worker[w].pc = "returned"
      /\ {u \in users : u.username = worker[w].username} =
           {[id |-> worker[w].id, username |-> worker[w].username]}

\* the step is a call of start_scheduler or stop_scheduler
SchedulerCall(op) == last' # last /\ last'.op = op

\* C30: after a start_scheduler is_running is true and after a
\* stop_scheduler it is false, and no other step changes it; a start while
\* running and a stop while not running leave the scheduler as it is (no
\* job added, no second start); the job store never holds more than one
\* 'news_scraping_job'
C30_SchedulerLifecycle ==
  [][/\ SchedulerCall("start_scheduler")
          => /\ sched'.is_running
             /\ sched.is_running => sched' = sched
     /\ SchedulerCall("stop_scheduler")
          => /\ ~sched'.is_running
             /\ ~sched.is_running => sched' = sched
     /\ (~SchedulerCall("start_scheduler") /\ ~SchedulerCall("stop_scheduler"))
          => sched'.is_running = sched.is_running
     /\ sched'.is_running <=> sched'.state = "running"
     /\ Registered(sched', "news_scraping_job") <= 1]_vars

C30_Witness ==
  /\ last = [op |-> "start_scheduler", pre |-> sched]
  /\ sched.is_running
  /\ sched.starts = 2
  /\ sched.jobs = <<"news_scraping_job">>

====
